---- MODULE Spec2Model ----
(***************************************************************************)
(* Cost and token accounting of the prompt-optimization demo:              *)
(*   cost_calculator.py  CostCalculator (PRICING, calculate_cost,          *)
(*                       calculate_savings)                                *)
(*   llm_client.py       LLMClient (analyze_with_caching,                  *)
(*                       analyze_question_position and their simulations)  *)
(*   app.py              the Cost Analysis tab's Calculate Projections     *)
(*                                                                         *)
(* Number representation.  The program computes with Python floats; the    *)
(* model computes the same expressions exactly, in scaled integers:        *)
(*   - a rate is held in thousandths of a dollar per million tokens        *)
(*     (0.27 is 270, 0.027 is 27), which is exact for every rate of the    *)
(*     program;                                                            *)
(*   - a cost "tokens / 1_000_000 * rate" is held as tokens * rate, that   *)
(*     is in units of 1e-9 dollar;                                         *)
(*   - the projection multiplies token counts by 0.1, so it holds token    *)
(*     counts in tenths of a token and costs in units of 1e-10 dollar.     *)
(* int(x * 0.9) is Python's truncation toward zero.                        *)
(***************************************************************************)
EXTENDS Integers, Sequences, FiniteSets, TLC

VARIABLES PRICING, groq_client, call, caching_results

vars == <<PRICING, groq_client, call, caching_results>>

(***************************************************************************)
(* Bounds of the model                                                     *)
(***************************************************************************)
MaxTokens == 3
MaxCost == 2
MaxCachedRequests == 2
MaxPromptTokens == 12
MaxCompletionTokens == 1
MaxDocumentLen == 8
MaxContextLen == 1
MaxCodeLen == 1
MaxQuestionLen == 10
MaxUsers == 2
MaxDays == 2
MaxQuestions == 3
MaxDocumentSteps == 1

MaxRunQuestions == 2

(***************************************************************************)
(* cost_calculator.py                                                      *)
(***************************************************************************)
DEFAULT_MODEL == "llama-3.1-70b-versatile"

\* A table in which one entry's cached rate is written 0.7 instead of 0.007.
PRICING_TABLE_CachedDearer ==
    [groq |->
        [m \in {"llama-3.1-70b-versatile", "llama-3.1-8b-instant",
                "mixtral-8x7b-32768", "gemma-7b-it", "llama-3.3-70b-versatile"} |->
            CASE m = "llama-3.1-70b-versatile" -> [input |-> 270, output |-> 270, cached_input |-> 27]
              [] m = "llama-3.1-8b-instant"    -> [input |-> 50,  output |-> 50,  cached_input |-> 5]
              [] m = "mixtral-8x7b-32768"      -> [input |-> 240, output |-> 240, cached_input |-> 24]
              [] m = "gemma-7b-it"             -> [input |-> 70,  output |-> 70,  cached_input |-> 700]
              [] m = "llama-3.3-70b-versatile" -> [input |-> 270, output |-> 270, cached_input |-> 27]]]

PRICING_TABLE ==
    [groq |->
        [m \in {"llama-3.1-70b-versatile", "llama-3.1-8b-instant",
                "mixtral-8x7b-32768", "gemma-7b-it", "llama-3.3-70b-versatile"} |->
            CASE m = "llama-3.1-70b-versatile" -> [input |-> 270, output |-> 270, cached_input |-> 27]
              [] m = "llama-3.1-8b-instant"    -> [input |-> 50,  output |-> 50,  cached_input |-> 5]
              [] m = "mixtral-8x7b-32768"      -> [input |-> 240, output |-> 240, cached_input |-> 24]
              [] m = "gemma-7b-it"             -> [input |-> 70,  output |-> 70,  cached_input |-> 7]
              [] m = "llama-3.3-70b-versatile" -> [input |-> 270, output |-> 270, cached_input |-> 27]]]

\* The model names of the table, and the names a caller may pass.
Models == DOMAIN PRICING_TABLE.groq

ModelInputs == Models \cup {"nonexistent-model", ""}

ProviderInputs == {"groq", "Groq", "openai"}

\* A lookup whose fallback is the cheapest model instead of the default one.
LookupPricingCheapestFallback(pricing, provider, model) ==
    LET provider_key == "groq"
        m == IF model \notin DOMAIN pricing[provider_key] THEN "llama-3.1-8b-instant" ELSE model
    IN  pricing[provider_key][m]

\* calculate_cost, lines 47-53: the provider argument is ignored, an unknown
\* model is replaced by the default model.
LookupPricing(pricing, provider, model) ==
    LET provider_key == "groq"
        m == IF model \notin DOMAIN pricing[provider_key] THEN DEFAULT_MODEL ELSE model
    IN  pricing[provider_key][m]

\* A calculate_cost that bills the whole input at the input rate and the
\* cached tokens once more at the cached rate.
calculate_cost_cached_twice(pricing, input_tokens, output_tokens, cached_tokens, provider, model) ==
    LET p == LookupPricing(pricing, provider, model)
        input_cost == input_tokens * p.input
        cached_cost == cached_tokens * p.cached_input
        output_cost == output_tokens * p.output
    IN  input_cost + cached_cost + output_cost

\* calculate_cost, lines 55-61, in units of 1e-9 dollar.
calculate_cost(pricing, input_tokens, output_tokens, cached_tokens, provider, model) ==
    LET p == LookupPricing(pricing, provider, model)
        non_cached_input == input_tokens - cached_tokens
        input_cost == non_cached_input * p.input
        cached_cost == cached_tokens * p.cached_input
        output_cost == output_tokens * p.output
    IN  input_cost + cached_cost + output_cost

\* A calculate_savings that guards the division against zero only.
calculate_savings_nonzero_guard(original_cost, optimized_cost) ==
    LET savings == original_cost - optimized_cost
        savings_percentage ==
            IF original_cost # 0
            THEN [num |-> savings * 100, den |-> original_cost]
            ELSE [num |-> 0, den |-> 1]
    IN  [absolute |-> savings, percentage |-> savings_percentage]

\* calculate_savings.  The percentage savings / original_cost * 100 is a
\* ratio of two costs: it is held as the fraction num / den (den > 0).
calculate_savings(original_cost, optimized_cost) ==
    LET savings == original_cost - optimized_cost
        savings_percentage ==
            IF original_cost > 0
            THEN [num |-> savings * 100, den |-> original_cost]
            ELSE [num |-> 0, den |-> 1]
    IN  [absolute |-> savings, percentage |-> savings_percentage]

\* project_monthly_cost multiplies token counts by 0.1, by 0.9 and by the
\* cache hit rate.  It holds the cache hit rate in tenths, token counts in
\* units of 1e-4 token (first_request_tokens and effective_tokens_per_user in
\* units of 1e-3 token), and its costs in units of 1e-13 dollar.
CacheHitRateInputs == {0, 5, 9, 10}

\* A projection that estimates no output tokens.
project_monthly_cost_without_output(pricing, daily_users, tokens_per_user, days_per_month, provider, model, use_caching, cache_hit_rate) ==
    LET first_request_tokens == 100 * tokens_per_user
        cached_tokens == (90 * tokens_per_user) * cache_hit_rate
        effective_tokens_per_user == first_request_tokens + (cached_tokens \div 10)
        total_tokens ==
            IF use_caching
            THEN 10 * (daily_users * effective_tokens_per_user * days_per_month)
            ELSE 10000 * (daily_users * tokens_per_user * days_per_month)
        cost == calculate_cost(pricing, total_tokens, 0,
                               IF use_caching THEN (9 * total_tokens) \div 10 ELSE 0,
                               provider, model)
    IN  [monthly_cost |-> cost,
         annual_cost |-> cost * 12,
         total_tokens |-> total_tokens]

\* project_monthly_cost, lines 77-110.
project_monthly_cost(pricing, daily_users, tokens_per_user, days_per_month, provider, model, use_caching, cache_hit_rate) ==
    LET first_request_tokens == 100 * tokens_per_user
        cached_tokens == (90 * tokens_per_user) * cache_hit_rate
        effective_tokens_per_user == first_request_tokens + (cached_tokens \div 10)
        total_tokens ==
            IF use_caching
            THEN 10 * (daily_users * effective_tokens_per_user * days_per_month)
            ELSE 10000 * (daily_users * tokens_per_user * days_per_month)
        cost == calculate_cost(pricing, total_tokens, total_tokens \div 10,
                               IF use_caching THEN (9 * total_tokens) \div 10 ELSE 0,
                               provider, model)
    IN  [monthly_cost |-> cost,
         annual_cost |-> cost * 12,
         total_tokens |-> total_tokens]

(***************************************************************************)
(* utils.py                                                                *)
(***************************************************************************)
\* A calculate_cache_savings that divides without looking at the divisor; a
\* fraction with den = 0 stands for the ZeroDivisionError.
calculate_cache_savings_unguarded(first_request_cost, cached_request_cost, num_cached_requests) ==
    LET total_without_cache == first_request_cost * (1 + num_cached_requests)
        total_with_cache == first_request_cost + (cached_request_cost * num_cached_requests)
        savings == total_without_cache - total_with_cache
        savings_percentage == [num |-> savings * 100, den |-> total_without_cache]
    IN  [total_savings |-> savings,
         savings_percentage |-> savings_percentage,
         cost_without_cache |-> total_without_cache,
         cost_with_cache |-> total_with_cache]

\* calculate_cache_savings; the percentage is a fraction as in calculate_savings.
calculate_cache_savings(first_request_cost, cached_request_cost, num_cached_requests) ==
    LET total_without_cache == first_request_cost * (1 + num_cached_requests)
        total_with_cache == first_request_cost + (cached_request_cost * num_cached_requests)
        savings == total_without_cache - total_with_cache
        savings_percentage ==
            IF total_without_cache > 0
            THEN [num |-> savings * 100, den |-> total_without_cache]
            ELSE [num |-> 0, den |-> 1]
    IN  [total_savings |-> savings,
         savings_percentage |-> savings_percentage,
         cost_without_cache |-> total_without_cache,
         cost_with_cache |-> total_with_cache]

(***************************************************************************)
(* Texts.  The client reads a text only through len() and by copying it    *)
(* into a prompt, so the texts of the model are the prefixes of one sample *)
(* text: one text of every length up to the bound.                         *)
(***************************************************************************)
SampleText == "What is the main finding about cost reduction?"

Text(n) == SubSeq(SampleText, 1, n)

Documents == {Text(n) : n \in 0..MaxDocumentLen}

Questions == {Text(n) : n \in 0..MaxQuestionLen}

Contexts == {Text(n) : n \in 0..MaxContextLen}

Codes == {Text(n) : n \in 0..MaxCodeLen}

(***************************************************************************)
(* llm_client.py                                                           *)
(***************************************************************************)
\* int(n * 0.9) for an integer n: the float product truncated toward zero.
PyIntTimes09(n) ==
    IF n >= 0 THEN (9 * n) \div 10 ELSE -((9 * (-n)) \div 10)

\* The client writes its rates into each cost computation: 0.27 is 270 and
\* 0.027 is 27 thousandths of a dollar.  Costs are in units of 1e-9 dollar.

\* What the provider's chat.completions.create does with one request: it
\* raises, or it returns a usage report.  The token counts are the provider's.
ProviderOutcomes ==
    {[raises |-> TRUE, prompt_tokens |-> 0, completion_tokens |-> 0]} \cup
    {[raises |-> FALSE, prompt_tokens |-> p, completion_tokens |-> c] :
        p \in (0..MaxPromptTokens) \cup {5000}, c \in 0..MaxCompletionTokens}

SYSTEM_TOKENS == 500

SIMULATED_OUTPUT_TOKENS == 200

\* A simulation that bills its whole input at the input rate, as the
\* simulation without caching does.
_simulate_response_full_rate(document, question, is_first_request) ==
    LET doc_tokens == Len(document) \div 4
        question_tokens == Len(question) \div 4
        system_tokens == SYSTEM_TOKENS
        input_tokens == system_tokens + doc_tokens + question_tokens
        output_tokens == SIMULATED_OUTPUT_TOKENS
        cached_tokens == IF ~is_first_request
                         THEN PyIntTimes09(system_tokens + doc_tokens)
                         ELSE 0
        input_cost == input_tokens * 270
        output_cost == output_tokens * 270
        total_cost == input_cost + output_cost
    IN  [response |-> [simulated |-> TRUE, question |-> question],
         tokens |-> [input |-> input_tokens, output |-> output_tokens, cached |-> cached_tokens],
         cost |-> total_cost,
         cache_info |-> [hit |-> ~is_first_request, cached_tokens |-> cached_tokens]]

_simulate_response(document, question, is_first_request) ==
    LET doc_tokens == Len(document) \div 4
        question_tokens == Len(question) \div 4
        system_tokens == SYSTEM_TOKENS
        input_tokens == system_tokens + doc_tokens + question_tokens
        output_tokens == SIMULATED_OUTPUT_TOKENS
        cached_tokens == IF ~is_first_request
                         THEN PyIntTimes09(system_tokens + doc_tokens)
                         ELSE 0
        input_cost == (input_tokens - cached_tokens) * 270
        cached_cost == cached_tokens * 27
        output_cost == output_tokens * 270
        total_cost == input_cost + cached_cost + output_cost
    IN  [response |-> [simulated |-> TRUE, question |-> question],
         tokens |-> [input |-> input_tokens, output |-> output_tokens, cached |-> cached_tokens],
         cost |-> total_cost,
         cache_info |-> [hit |-> ~is_first_request, cached_tokens |-> cached_tokens]]

\* An estimate that takes the whole input for static content.
EstimateCachedTokensOfWholeInput(input_tokens, question, enable_caching, is_first_request) ==
    IF ~is_first_request /\ enable_caching
    THEN PyIntTimes09(input_tokens)
    ELSE 0

\* The cached-token estimate of the real path, lines 108-113.
EstimateCachedTokens(input_tokens, question, enable_caching, is_first_request) ==
    IF ~is_first_request /\ enable_caching
    THEN LET static_tokens == input_tokens - (Len(question) \div 4)
         IN  PyIntTimes09(static_tokens)
    ELSE 0

\* The cost of the real path, lines 118-121.
GroqCachingCost(input_tokens, output_tokens, cached_tokens) ==
    LET input_cost == (input_tokens - cached_tokens) * 270
        cached_cost == cached_tokens * 27
        output_cost == output_tokens * 270
    IN  input_cost + cached_cost + output_cost

\* client is the groq_client attribute (FALSE for None), outcome what the
\* provider does if it is called.
_analyze_groq_caching(client, outcome, document, question, model, enable_caching, is_first_request) ==
    IF ~client
    THEN _simulate_response(document, question, is_first_request)
    ELSE IF outcome.raises
    THEN _simulate_response(document, question, is_first_request)
    ELSE LET input_tokens == outcome.prompt_tokens
             output_tokens == outcome.completion_tokens
             cached_tokens == EstimateCachedTokens(input_tokens, question,
                                                   enable_caching, is_first_request)
             total_cost == GroqCachingCost(input_tokens, output_tokens, cached_tokens)
         IN  [response |-> [simulated |-> FALSE, question |-> question],
              tokens |-> [input |-> input_tokens, output |-> output_tokens, cached |-> cached_tokens],
              cost |-> total_cost,
              cache_info |-> [hit |-> (~is_first_request /\ enable_caching),
                              cached_tokens |-> cached_tokens]]

_simulate_basic_response(prompt) ==
    LET input_tokens == Len(prompt) \div 4
        output_tokens == SIMULATED_OUTPUT_TOKENS
        input_cost == input_tokens * 270
        output_cost == output_tokens * 270
        total_cost == input_cost + output_cost
    IN  [response |-> [simulated |-> TRUE, prompt |-> prompt],
         tokens |-> [input |-> input_tokens, output |-> output_tokens, cached |-> 0],
         cost |-> total_cost]

\* The cost of a successful _call_groq, lines 201-203.
CallGroqCost(input_tokens, output_tokens) ==
    LET input_cost == input_tokens * 270
        output_cost == output_tokens * 270
    IN  input_cost + output_cost

_call_groq(client, outcome, prompt, model) ==
    IF ~client
    THEN _simulate_basic_response(prompt)
    ELSE IF outcome.raises
    THEN _simulate_basic_response(prompt)
    ELSE LET input_tokens == outcome.prompt_tokens
             output_tokens == outcome.completion_tokens
             total_cost == CallGroqCost(input_tokens, output_tokens)
         IN  [response |-> [simulated |-> FALSE, prompt |-> prompt],
              tokens |-> [input |-> input_tokens, output |-> output_tokens, cached |-> 0],
              cost |-> total_cost]

\* The prompt of analyze_question_position, lines 155-179.
QuestionPositionPrompt(context, code, question, question_first) ==
    IF question_first
    THEN "The customer is asking: " \o question
         \o "\n\nYou are an expert code reviewer specializing in Python security."
         \o "\n\nContext:\n" \o context
         \o "\n\nCode to review:\n" \o code
         \o "\n\nPlease analyze the code and answer the question."
    ELSE "You are an expert code reviewer specializing in Python security."
         \o "\n\nContext:\n" \o context
         \o "\n\nCode to review:\n" \o code
         \o "\n\nCUSTOMER QUESTION:\n" \o question

analyze_question_position(client, outcome, context, code, question, model, question_first) ==
    _call_groq(client, outcome, QuestionPositionPrompt(context, code, question, question_first), model)

\* Which way a client call went: the provider answered, no client exists, or
\* the provider call raised.
Path(client, outcome) ==
    IF ~client THEN "no_client" ELSE IF outcome.raises THEN "exception" ELSE "real"

(***************************************************************************)
(* app.py, the Cost Analysis tab                                           *)
(***************************************************************************)
\* The number inputs of the tab (lines 420-430): their min_value, and the
\* values the model draws.  Prices are in thousandths of a dollar.
MIN_DOCUMENT_SIZE == 100

DailyUsersInputs == 1..MaxUsers

DocumentSizeInputs == MIN_DOCUMENT_SIZE..(MIN_DOCUMENT_SIZE + MaxDocumentSteps)

QuestionsPerUserInputs == 1..MaxQuestions

DaysPerMonthInputs == 1..MaxDays

PriceInputs == {0, 5, 27, 50, 270}

\* Calculate Projections, lines 432-449.  The optimized token counts are
\* multiples of 0.1 token: they are held in tenths of a token, and every
\* cost of the projection in units of 1e-10 dollar.

\* A baseline that counts the document once per session.
ProjectionBaselineCostPerDocument(daily_users, avg_document_size, avg_questions_per_user, days_per_month, input_price) ==
    LET total_sessions == daily_users * days_per_month
        tokens_per_session == avg_document_size
        total_tokens == total_sessions * tokens_per_session
    IN  (10 * total_tokens) * input_price

\* Without optimization, lines 434-437.
ProjectionBaselineCost(daily_users, avg_document_size, avg_questions_per_user, days_per_month, input_price) ==
    LET total_sessions == daily_users * days_per_month
        tokens_per_session == avg_document_size * avg_questions_per_user
        total_tokens == total_sessions * tokens_per_session
    IN  (10 * total_tokens) * input_price

\* An optimized cost that counts a cached request for every question, the
\* first one included.
ProjectionOptimizedCostAllCached(daily_users, avg_document_size, avg_questions_per_user, days_per_month, cached_price) ==
    LET total_sessions == daily_users * days_per_month
        first_request_tokens == 10 * avg_document_size
        cached_request_tokens == avg_document_size
        tokens_per_session_optimized ==
            first_request_tokens + (cached_request_tokens * avg_questions_per_user)
        total_tokens_optimized == total_sessions * tokens_per_session_optimized
    IN  total_tokens_optimized * cached_price

\* An optimized cost whose later questions count the whole document.
ProjectionOptimizedCostNoCacheDiscount(daily_users, avg_document_size, avg_questions_per_user, days_per_month, cached_price) ==
    LET total_sessions == daily_users * days_per_month
        first_request_tokens == 10 * avg_document_size
        cached_request_tokens == 10 * avg_document_size
        tokens_per_session_optimized ==
            first_request_tokens + (cached_request_tokens * (avg_questions_per_user - 1))
        total_tokens_optimized == total_sessions * tokens_per_session_optimized
    IN  total_tokens_optimized * cached_price

\* With caching, lines 440-444.
ProjectionOptimizedCost(daily_users, avg_document_size, avg_questions_per_user, days_per_month, cached_price) ==
    LET total_sessions == daily_users * days_per_month
        first_request_tokens == 10 * avg_document_size
        cached_request_tokens == avg_document_size
        tokens_per_session_optimized ==
            first_request_tokens + (cached_request_tokens * (avg_questions_per_user - 1))
        total_tokens_optimized == total_sessions * tokens_per_session_optimized
    IN  total_tokens_optimized * cached_price

\* A projection whose savings percentage is taken over the optimized cost.
CalculateProjectionsPercentOfOptimized(daily_users, avg_document_size, avg_questions_per_user, days_per_month, input_price, cached_price) ==
    LET cost_without_opt ==
            ProjectionBaselineCost(daily_users, avg_document_size, avg_questions_per_user,
                                   days_per_month, input_price)
        cost_with_opt ==
            ProjectionOptimizedCost(daily_users, avg_document_size, avg_questions_per_user,
                                    days_per_month, cached_price)
        monthly_savings == cost_without_opt - cost_with_opt
        annual_savings == monthly_savings * 12
        savings_percentage ==
            IF cost_with_opt > 0
            THEN [num |-> monthly_savings * 100, den |-> cost_with_opt]
            ELSE [num |-> 0, den |-> 1]
    IN  [cost_without_opt |-> cost_without_opt,
         cost_with_opt |-> cost_with_opt,
         monthly_savings |-> monthly_savings,
         annual_savings |-> annual_savings,
         savings_percentage |-> savings_percentage]

\* A projection that subtracts the baseline from the optimized cost.
CalculateProjectionsSavingsReversed(daily_users, avg_document_size, avg_questions_per_user, days_per_month, input_price, cached_price) ==
    LET cost_without_opt ==
            ProjectionBaselineCost(daily_users, avg_document_size, avg_questions_per_user,
                                   days_per_month, input_price)
        cost_with_opt ==
            ProjectionOptimizedCost(daily_users, avg_document_size, avg_questions_per_user,
                                    days_per_month, cached_price)
        monthly_savings == cost_with_opt - cost_without_opt
        annual_savings == monthly_savings * 12
        savings_percentage ==
            IF cost_without_opt > 0
            THEN [num |-> monthly_savings * 100, den |-> cost_without_opt]
            ELSE [num |-> 0, den |-> 1]
    IN  [cost_without_opt |-> cost_without_opt,
         cost_with_opt |-> cost_with_opt,
         monthly_savings |-> monthly_savings,
         annual_savings |-> annual_savings,
         savings_percentage |-> savings_percentage]

CalculateProjections(daily_users, avg_document_size, avg_questions_per_user, days_per_month, input_price, cached_price) ==
    LET cost_without_opt ==
            ProjectionBaselineCost(daily_users, avg_document_size, avg_questions_per_user,
                                   days_per_month, input_price)
        cost_with_opt ==
            ProjectionOptimizedCost(daily_users, avg_document_size, avg_questions_per_user,
                                    days_per_month, cached_price)
        monthly_savings == cost_without_opt - cost_with_opt
        annual_savings == monthly_savings * 12
        savings_percentage ==
            IF cost_without_opt > 0
            THEN [num |-> monthly_savings * 100, den |-> cost_without_opt]
            ELSE [num |-> 0, den |-> 1]
    IN  [cost_without_opt |-> cost_without_opt,
         cost_with_opt |-> cost_with_opt,
         monthly_savings |-> monthly_savings,
         annual_savings |-> annual_savings,
         savings_percentage |-> savings_percentage]

\* The Run Caching Test handler, lines 130-188.  A text is blank when
\* strip() leaves nothing of it.
IsBlank(text) ==
    \A i \in 1..Len(text) : SubSeq(text, i, i) \in {" ", "\n", "\t"}

CachingTestDocuments == {"", " \n", Text(MaxDocumentLen)}

CachingTestQuestions == {" ", Text(MaxQuestionLen)}

\* What the provider does with each request of a run.
CachingTestOutcomes ==
    {o \in ProviderOutcomes :
        o.raises \/ (o.prompt_tokens = 5000 /\ o.completion_tokens = MaxCompletionTokens)}

\* The two checks of lines 131-134.
ValidCachingTest(document, questions) ==
    /\ ~IsBlank(document)
    /\ \E i \in 1..Len(questions) : ~IsBlank(questions[i])

\* A run that opens the cache anew with every question.
CachingTestRequestsAllFirst(document, questions, model, enable_caching) ==
    [i \in 1..Len(questions) |->
        [document |-> document,
         question |-> questions[i],
         provider |-> "Groq",
         model |-> model,
         enable_caching |-> enable_caching,
         is_first_request |-> TRUE]]

\* The arguments of the analyze_with_caching calls of a run, in the order the
\* calls are made: questions[0] at lines 142-149, questions[1:] at 165-174.
CachingTestRequests(document, questions, model, enable_caching) ==
    [i \in 1..Len(questions) |->
        [document |-> document,
         question |-> questions[i],
         provider |-> "Groq",
         model |-> model,
         enable_caching |-> enable_caching,
         is_first_request |-> (i = 1)]]

\* The records appended to results, lines 152-160 and 177-185; returned holds
\* what the client returned for each request.  The elapsed time of a record
\* is left out.
CachingTestRecords(questions, returned) ==
    [i \in 1..Len(questions) |->
        [question |-> questions[i],
         request_num |-> i,
         cache_status |-> IF i = 1 THEN "MISS" ELSE "HIT",
         tokens |-> returned[i].tokens,
         cost |-> returned[i].cost,
         response |-> returned[i].response]]

(***************************************************************************)
(* State machine.  PRICING is the class attribute, groq_client the         *)
(* client's attribute (TRUE: a client object, FALSE: None).  call is the   *)
(* call that has just returned, with its arguments and its result; the     *)
(* program is synchronous, so a call starts when no other is under way.    *)
(* caching_results is st.session_state.caching_results, the empty sequence  *)
(* while the session has none: a run never stores an empty list.           *)
(***************************************************************************)
Init ==
    /\ PRICING = PRICING_TABLE
    /\ groq_client \in BOOLEAN
    /\ call = [op |-> "none"]
    /\ caching_results = <<>>

\* A calculate_cost that keeps the fallback entry under the unknown name.
CalculateCostStoringFallback ==
    /\ call.op = "none"
    /\ \E input_tokens \in 0..MaxTokens, output_tokens \in 0..MaxTokens,
          cached_tokens \in 0..MaxTokens, provider \in ProviderInputs, model \in ModelInputs :
            /\ call' = [op |-> "calculate_cost",
                        input_tokens |-> input_tokens,
                        output_tokens |-> output_tokens,
                        cached_tokens |-> cached_tokens,
                        provider |-> provider,
                        model |-> model,
                        result |-> calculate_cost(PRICING, input_tokens, output_tokens,
                                                  cached_tokens, provider, model)]
            /\ PRICING' = [PRICING EXCEPT !.groq =
                              (model :> LookupPricing(PRICING, provider, model)) @@ @]
    /\ UNCHANGED <<groq_client, caching_results>>

CalculateCost ==
    /\ call.op = "none"
    /\ \E input_tokens \in 0..MaxTokens, output_tokens \in 0..MaxTokens,
          cached_tokens \in 0..MaxTokens, provider \in ProviderInputs, model \in ModelInputs :
            call' = [op |-> "calculate_cost",
                     input_tokens |-> input_tokens,
                     output_tokens |-> output_tokens,
                     cached_tokens |-> cached_tokens,
                     provider |-> provider,
                     model |-> model,
                     result |-> calculate_cost(PRICING, input_tokens, output_tokens,
                                               cached_tokens, provider, model)]
    /\ UNCHANGED <<PRICING, groq_client, caching_results>>

CalculateSavings ==
    /\ call.op = "none"
    /\ \E original_cost \in (-MaxCost)..MaxCost, optimized_cost \in (-MaxCost)..MaxCost :
            call' = [op |-> "calculate_savings",
                     original_cost |-> original_cost,
                     optimized_cost |-> optimized_cost,
                     result |-> calculate_savings(original_cost, optimized_cost)]
    /\ UNCHANGED <<PRICING, groq_client, caching_results>>

ProjectMonthlyCost ==
    /\ call.op = "none"
    /\ \E daily_users \in DailyUsersInputs, tokens_per_user \in 0..MaxTokens,
          days_per_month \in DaysPerMonthInputs, provider \in ProviderInputs,
          model \in ModelInputs, use_caching \in BOOLEAN,
          cache_hit_rate \in CacheHitRateInputs :
            call' = [op |-> "project_monthly_cost",
                     daily_users |-> daily_users,
                     tokens_per_user |-> tokens_per_user,
                     days_per_month |-> days_per_month,
                     provider |-> provider,
                     model |-> model,
                     use_caching |-> use_caching,
                     cache_hit_rate |-> cache_hit_rate,
                     result |-> project_monthly_cost(PRICING, daily_users, tokens_per_user,
                                                     days_per_month, provider, model,
                                                     use_caching, cache_hit_rate)]
    /\ UNCHANGED <<PRICING, groq_client, caching_results>>

CalculateCacheSavings ==
    /\ call.op = "none"
    /\ \E first_request_cost \in (-MaxCost)..MaxCost, cached_request_cost \in (-MaxCost)..MaxCost,
          num_cached_requests \in 0..MaxCachedRequests :
            call' = [op |-> "calculate_cache_savings",
                     first_request_cost |-> first_request_cost,
                     cached_request_cost |-> cached_request_cost,
                     num_cached_requests |-> num_cached_requests,
                     result |-> calculate_cache_savings(first_request_cost, cached_request_cost,
                                                        num_cached_requests)]
    /\ UNCHANGED <<PRICING, groq_client, caching_results>>

AnalyzeWithCaching ==
    /\ call.op = "none"
    /\ \E document \in Documents, question \in Questions, model \in Models,
          enable_caching \in BOOLEAN, is_first_request \in BOOLEAN,
          outcome \in ProviderOutcomes :
            call' = [op |-> "analyze_with_caching",
                     document |-> document,
                     question |-> question,
                     provider |-> "Groq",
                     model |-> model,
                     enable_caching |-> enable_caching,
                     is_first_request |-> is_first_request,
                     path |-> Path(groq_client, outcome),
                     result |-> _analyze_groq_caching(groq_client, outcome, document, question,
                                                      model, enable_caching, is_first_request)]
    /\ UNCHANGED <<PRICING, groq_client, caching_results>>

AnalyzeQuestionPosition ==
    /\ call.op = "none"
    /\ \E context \in Contexts, code \in Codes, question \in Questions, model \in Models,
          question_first \in BOOLEAN, outcome \in ProviderOutcomes :
            call' = [op |-> "analyze_question_position",
                     context |-> context,
                     code |-> code,
                     question |-> question,
                     provider |-> "Groq",
                     model |-> model,
                     question_first |-> question_first,
                     path |-> Path(groq_client, outcome),
                     result |-> analyze_question_position(groq_client, outcome, context, code,
                                                          question, model, question_first)]
    /\ UNCHANGED <<PRICING, groq_client, caching_results>>

RunCalculateProjections ==
    /\ call.op = "none"
    /\ \E daily_users \in DailyUsersInputs, avg_document_size \in DocumentSizeInputs,
          avg_questions_per_user \in QuestionsPerUserInputs,
          days_per_month \in DaysPerMonthInputs,
          input_price \in PriceInputs, cached_price \in PriceInputs :
            call' = [op |-> "calculate_projections",
                     daily_users |-> daily_users,
                     avg_document_size |-> avg_document_size,
                     avg_questions_per_user |-> avg_questions_per_user,
                     days_per_month |-> days_per_month,
                     input_price |-> input_price,
                     cached_price |-> cached_price,
                     result |-> CalculateProjections(daily_users, avg_document_size,
                                                     avg_questions_per_user, days_per_month,
                                                     input_price, cached_price)]
    /\ UNCHANGED <<PRICING, groq_client, caching_results>>

\* One press of Run Caching Test: the validation, the requests and the
\* assignment to the session state.  requests and returned are the calls the
\* handler made and what they returned.
RunCachingTest ==
    /\ call.op = "none"
    /\ \E document \in CachingTestDocuments, num_questions \in 1..MaxRunQuestions,
          model \in Models, enable_caching \in BOOLEAN :
         \E questions \in [1..num_questions -> CachingTestQuestions],
            outcomes \in [1..num_questions -> CachingTestOutcomes] :
            IF ValidCachingTest(document, questions)
            THEN LET requests == CachingTestRequests(document, questions, model, enable_caching)
                     returned == [i \in 1..Len(requests) |->
                                     _analyze_groq_caching(groq_client, outcomes[i],
                                                           requests[i].document,
                                                           requests[i].question,
                                                           requests[i].model,
                                                           requests[i].enable_caching,
                                                           requests[i].is_first_request)]
                 IN  /\ call' = [op |-> "run_caching_test",
                                 document |-> document,
                                 questions |-> questions,
                                 model |-> model,
                                 enable_caching |-> enable_caching,
                                 valid |-> TRUE,
                                 requests |-> requests,
                                 returned |-> returned]
                     /\ caching_results' = CachingTestRecords(questions, returned)
            ELSE /\ call' = [op |-> "run_caching_test",
                             document |-> document,
                             questions |-> questions,
                             model |-> model,
                             enable_caching |-> enable_caching,
                             valid |-> FALSE,
                             requests |-> <<>>,
                             returned |-> <<>>]
                 /\ caching_results' = caching_results
    /\ UNCHANGED <<PRICING, groq_client>>

\* The caller has used the returned value; nothing of the call is kept.
Return ==
    /\ call.op # "none"
    /\ call' = [op |-> "none"]
    /\ UNCHANGED <<PRICING, groq_client, caching_results>>

Next ==
    \/ CalculateCost
    \/ CalculateSavings
    \/ CalculateCacheSavings
    \/ ProjectMonthlyCost
    \/ AnalyzeWithCaching
    \/ AnalyzeQuestionPosition
    \/ RunCalculateProjections
    \/ Return

Spec == Init /\ [][Next]_vars

\* The caching test page on its own: runs of the test, one after another.
NextCachingTest ==
    \/ RunCachingTest
    \/ Return

SpecCachingTest == Init /\ [][NextCachingTest]_vars

(***************************************************************************)
(* Properties                                                              *)
(***************************************************************************)
\* input_tokens, output_tokens and cached_tokens billed at the three rates of
\* one pricing entry, the cached tokens being part of the input tokens.
CostAtRates(rates, input_tokens, output_tokens, cached_tokens) ==
    (input_tokens - cached_tokens) * rates.input
    + cached_tokens * rates.cached_input
    + output_tokens * rates.output

\* A fraction num / den with den > 0 equals the ratio a / b * 100 (b > 0).
IsPercentageOf(fraction, a, b) ==
    /\ fraction.den > 0
    /\ fraction.num * b = (a * 100) * fraction.den

\* C1: calculate_cost called with cached_tokens <= input_tokens and a model of
\* the pricing table returns (input - cached) * inputRate + cached *
\* cachedInputRate + output * outputRate at that model's rates (per million
\* tokens), and the total is >= 0.
C1_CostIsSumOfTiers ==
    (call.op = "calculate_cost" /\ call.model \in Models
        /\ call.cached_tokens <= call.input_tokens)
    => /\ call.result = CostAtRates(PRICING_TABLE.groq[call.model], call.input_tokens,
                                    call.output_tokens, call.cached_tokens)
       /\ call.result >= 0

C1_Witness ==
    /\ call.op = "calculate_cost"
    /\ call.model = "mixtral-8x7b-32768"
    /\ call.input_tokens = 3 /\ call.cached_tokens = 2 /\ call.output_tokens = 1
    /\ call.result = 240 + 48 + 240

\* C2: calculate_cost with a model name that is not a key of the groq table
\* returns the cost at the rates of llama-3.1-70b-versatile, for every token
\* usage; with a model name of the table it returns the cost at that model's
\* own rates.
C2_UnknownModelFallsBack ==
    call.op = "calculate_cost"
    => call.result =
         CostAtRates(IF call.model \in Models
                     THEN PRICING_TABLE.groq[call.model]
                     ELSE PRICING_TABLE.groq["llama-3.1-70b-versatile"],
                     call.input_tokens, call.output_tokens, call.cached_tokens)

C2_Witness ==
    /\ call.op = "calculate_cost"
    /\ call.model = "nonexistent-model"
    /\ call.provider = "groq"
    /\ call.input_tokens = 2 /\ call.cached_tokens = 1 /\ call.output_tokens = 1
    /\ call.result = 270 + 27 + 270

\* C3: calculate_savings returns absolute = original_cost - optimized_cost and
\* percentage = absolute / original_cost * 100 when original_cost > 0; when
\* original_cost is zero or negative the percentage is 0 and nothing is
\* divided by zero.
C3_SavingsGuarded ==
    call.op = "calculate_savings"
    => /\ call.result.absolute = call.original_cost - call.optimized_cost
       /\ call.result.percentage.den # 0
       /\ call.original_cost > 0
            => IsPercentageOf(call.result.percentage, call.result.absolute, call.original_cost)
       /\ call.original_cost <= 0 => call.result.percentage.num = 0

C3_Witness ==
    /\ call.op = "calculate_savings"
    /\ call.original_cost = 0
    /\ call.optimized_cost = 2
    /\ call.result.absolute = -2
    /\ call.result.percentage.num = 0

\* C4: calculate_cost with non-negative token counts never returns a negative
\* total, also when cached_tokens > input_tokens (the non-cached input count
\* being clamped at zero).
C4_CostNeverNegative ==
    call.op = "calculate_cost" => call.result >= 0

\* The calls of the client, and the token usage and cache report of a result.
IsClientCall == call.op \in {"analyze_with_caching", "analyze_question_position"}

\* c is n / d truncated toward zero (d > 0).
IsTruncatedQuotient(c, n, d) ==
    IF n >= 0
    THEN d * c <= n /\ n < d * c + d
    ELSE d * c - d < n /\ n <= d * c

\* C5 as stated: with caching enabled, on the real and on the simulated path,
\* a first request reports cached tokens = 0 and cache hit = false, and a later
\* request reports cached tokens = floor(0.9 * (input_tokens -
\* floor(len(question) / 4))) and cache hit = true.
C5_CachedIsFloorOfEstimate ==
    (call.op = "analyze_with_caching" /\ call.enable_caching)
    => LET r == call.result
           static_tokens == r.tokens.input - (Len(call.question) \div 4)
       IN  /\ r.cache_info.cached_tokens = r.tokens.cached
           /\ call.is_first_request => (r.tokens.cached = 0 /\ ~r.cache_info.hit)
           /\ ~call.is_first_request
                => (r.tokens.cached = (9 * static_tokens) \div 10 /\ r.cache_info.hit)

\* C5, amended: with caching enabled, on the real and on the simulated path,
\* a first request reports cached tokens = 0 and cache hit = false, and a later
\* request reports cache hit = true and cached tokens = 0.9 * (input_tokens -
\* floor(len(question) / 4)) truncated toward zero, which is the floor when
\* input_tokens >= floor(len(question) / 4) (5000 input tokens and a
\* 10-character question give 4498).
C5_CachedIsTruncatedEstimate ==
    (call.op = "analyze_with_caching" /\ call.enable_caching)
    => LET r == call.result
           static_tokens == r.tokens.input - (Len(call.question) \div 4)
       IN  /\ r.cache_info.cached_tokens = r.tokens.cached
           /\ call.is_first_request => (r.tokens.cached = 0 /\ ~r.cache_info.hit)
           /\ ~call.is_first_request
                => /\ IsTruncatedQuotient(r.tokens.cached, 9 * static_tokens, 10)
                   /\ static_tokens >= 0 => r.tokens.cached = (9 * static_tokens) \div 10
                   /\ r.cache_info.hit

C5_Witness ==
    /\ call.op = "analyze_with_caching"
    /\ call.path = "real"
    /\ call.enable_caching /\ ~call.is_first_request
    /\ Len(call.question) = 10
    /\ call.result.tokens.input = 5000
    /\ call.result.tokens.cached = 4498
    /\ call.result.cache_info.hit

\* C6: every token usage the client returns (analyze_with_caching on the real
\* or the simulated path, analyze_question_position) has 0 <= cached <= input.
C6_CachedWithinInput ==
    IsClientCall
    => /\ 0 <= call.result.tokens.cached
       /\ call.result.tokens.cached <= call.result.tokens.input

\* C7: the cost of every result the client returns equals calculate_cost of
\* the result's token usage with the model selected for the request.
C7_CostIsCalculatorCost ==
    IsClientCall
    => call.result.cost =
         calculate_cost(PRICING, call.result.tokens.input, call.result.tokens.output,
                        call.result.tokens.cached, call.provider, call.model)

\* C8: when no Groq client exists or the provider call raises, the client
\* returns a simulated result: analyze_with_caching returns the token usage
\* estimated from the call's document, question and is_first_request, and
\* analyze_question_position the usage estimated from its prompt, each with
\* the cost the successful path computes from such a usage.
C8_FailureReturnsSimulation ==
    (IsClientCall /\ call.path # "real")
    => LET r == call.result
           t == call.result.tokens
       IN  /\ r.response.simulated
           /\ r.cost >= 0
           /\ call.op = "analyze_with_caching"
                => LET static_tokens == 500 + (Len(call.document) \div 4)
                   IN  /\ r.response.question = call.question
                       /\ t.input = static_tokens + (Len(call.question) \div 4)
                       /\ t.output = 200
                       /\ t.cached = IF call.is_first_request
                                     THEN 0
                                     ELSE (9 * static_tokens) \div 10
                       /\ r.cache_info = [hit |-> ~call.is_first_request,
                                          cached_tokens |-> t.cached]
                       /\ r.cost = GroqCachingCost(t.input, t.output, t.cached)
           /\ call.op = "analyze_question_position"
                => LET template == IF call.question_first THEN 169 ELSE 114
                       prompt_len == template + Len(call.context) + Len(call.code)
                                     + Len(call.question)
                   IN  /\ t.input = prompt_len \div 4
                       /\ t.output = 200
                       /\ t.cached = 0
                       /\ r.cost = CallGroqCost(t.input, t.output)

C8_Witness ==
    /\ call.op = "analyze_with_caching"
    /\ call.path = "exception"
    /\ ~call.is_first_request
    /\ Len(call.document) = 8 /\ Len(call.question) = 4
    /\ call.result.tokens = [input |-> 503, output |-> 200, cached |-> 451]
    /\ call.result.cost = 52 * 270 + 451 * 27 + 200 * 270

\* C9: the baseline monthly cost of the projection is (dailyUsers *
\* daysPerMonth) * (avgDocumentTokens * avgQuestionsPerUser) / 1e6 * inputRate:
\* the cost of that many input tokens, with no output and no cached tokens, at
\* the input rate.  (In units of 1e-10 dollar.)
C9_BaselineCost ==
    call.op = "calculate_projections"
    => LET total_tokens == (call.daily_users * call.days_per_month)
                           * (call.avg_document_size * call.avg_questions_per_user)
       IN  /\ call.result.cost_without_opt = 10 * total_tokens * call.input_price
           /\ call.result.cost_without_opt =
                10 * CostAtRates([input |-> call.input_price, output |-> 0,
                                  cached_input |-> call.cached_price], total_tokens, 0, 0)

C9_Witness ==
    /\ call.op = "calculate_projections"
    /\ call.daily_users = 2 /\ call.days_per_month = 2
    /\ call.avg_document_size = 101 /\ call.avg_questions_per_user = 3
    /\ call.input_price = 270
    /\ call.result.cost_without_opt = 10 * 1212 * 270

\* C10: the optimized monthly cost of the projection is totalSessions *
\* (avgDocumentTokens + 0.1 * avgDocumentTokens * (avgQuestionsPerUser - 1))
\* / 1e6 * cachedRate.  (In tenths of a token and units of 1e-10 dollar.)
C10_OptimizedCost ==
    call.op = "calculate_projections"
    => LET total_sessions == call.daily_users * call.days_per_month
           tenths_per_session == 10 * call.avg_document_size
                                 + call.avg_document_size * (call.avg_questions_per_user - 1)
       IN  call.result.cost_with_opt = total_sessions * tenths_per_session * call.cached_price

C10_Witness ==
    /\ call.op = "calculate_projections"
    /\ call.daily_users = 2 /\ call.days_per_month = 1
    /\ call.avg_document_size = 100 /\ call.avg_questions_per_user = 3
    /\ call.cached_price = 27 /\ call.input_price = 270
    /\ call.result.cost_with_opt = 2 * 1200 * 27

\* C11: in the projection monthlySavings = costBaseline - costOptimized,
\* annualSavings = 12 * monthlySavings, and savingsPercentage = monthlySavings
\* / costBaseline * 100 when costBaseline > 0 and 0 otherwise, which is the
\* percentage calculate_savings(costBaseline, costOptimized) returns.
C11_ProjectionSavings ==
    call.op = "calculate_projections"
    => LET r == call.result
       IN  /\ r.monthly_savings = r.cost_without_opt - r.cost_with_opt
           /\ r.annual_savings = 12 * r.monthly_savings
           /\ r.savings_percentage.den # 0
           /\ r.cost_without_opt > 0
                => /\ r.savings_percentage.num = r.monthly_savings * 100
                   /\ r.savings_percentage.den = r.cost_without_opt
           /\ r.cost_without_opt <= 0 => r.savings_percentage.num = 0
           /\ r.savings_percentage
                = calculate_savings(r.cost_without_opt, r.cost_with_opt).percentage

C11_Witness ==
    /\ call.op = "calculate_projections"
    /\ call.input_price = 0 /\ call.cached_price = 27
    /\ call.result.cost_without_opt = 0
    /\ call.result.monthly_savings < 0
    /\ call.result.annual_savings = 12 * call.result.monthly_savings
    /\ call.result.savings_percentage.num = 0

\* The fraction lies in the interval (0, 100].
IsPercentageInLeftOpenUnit(fraction) ==
    /\ fraction.den > 0
    /\ 0 < fraction.num
    /\ fraction.num <= 100 * fraction.den

\* C12 as stated: for every scenario with inputRate > 0 and cachedRate <=
\* inputRate (all counts being > 0) the optimized monthly cost is strictly less
\* than the baseline monthly cost and savingsPercentage lies in (0, 100].
C12_OptimizedStrictlyCheaper ==
    (call.op = "calculate_projections" /\ call.input_price > 0
        /\ call.cached_price <= call.input_price)
    => /\ call.result.cost_with_opt < call.result.cost_without_opt
       /\ IsPercentageInLeftOpenUnit(call.result.savings_percentage)

\* C12, amended: for every scenario with inputRate > 0 and cachedRate <=
\* inputRate, and with cachedRate < inputRate or avgQuestionsPerUser >= 2, the
\* optimized monthly cost is strictly less than the baseline monthly cost and
\* savingsPercentage lies in (0, 100]; with one question per user and
\* cachedRate = inputRate the two costs are equal and savingsPercentage is 0.
C12_OptimizedCheaperUnlessSingleQuestionAtEqualRates ==
    (call.op = "calculate_projections" /\ call.input_price > 0
        /\ call.cached_price <= call.input_price)
    => IF call.cached_price < call.input_price \/ call.avg_questions_per_user >= 2
       THEN /\ call.result.cost_with_opt < call.result.cost_without_opt
            /\ IsPercentageInLeftOpenUnit(call.result.savings_percentage)
       ELSE /\ call.result.cost_with_opt = call.result.cost_without_opt
            /\ call.result.savings_percentage.num = 0

C12_Witness ==
    /\ call.op = "calculate_projections"
    /\ call.input_price = 270 /\ call.cached_price = 270
    /\ call.avg_questions_per_user = 2
    /\ call.result.cost_with_opt < call.result.cost_without_opt
    /\ call.result.savings_percentage.num = 45 * call.result.savings_percentage.den

\* C13: with cachedRate <= inputRate and the other fields fixed, one more
\* question per user never lowers costOptimized and raises it by at most
\* 0.1 * inputRate * totalSessions * avgDocumentTokens (per million tokens).
C13_MarginalQuestionCost ==
    (call.op = "calculate_projections" /\ call.cached_price <= call.input_price)
    => LET one_more == ProjectionOptimizedCost(call.daily_users, call.avg_document_size,
                                               call.avg_questions_per_user + 1,
                                               call.days_per_month, call.cached_price)
           increase == one_more - call.result.cost_with_opt
           total_sessions == call.daily_users * call.days_per_month
       IN  /\ 0 <= increase
           /\ increase <= total_sessions * call.avg_document_size * call.input_price

C13_Witness ==
    /\ call.op = "calculate_projections"
    /\ call.input_price = 270 /\ call.cached_price = 270
    /\ call.daily_users = 2 /\ call.days_per_month = 2 /\ call.avg_document_size = 100
    /\ call.avg_questions_per_user = 3
    /\ call.result.cost_with_opt = 4 * 1200 * 270

\* C14: every entry of the pricing table has cachedInputRate <= inputRate, so
\* n tokens cost no more at the cached tier than at the input tier, for every
\* entry; the rates 0.27 / 0.027 written into the client are ordered the same
\* way.
C14_CachedTierNotDearer ==
    /\ \A m \in DOMAIN PRICING.groq :
            PRICING.groq[m].cached_input <= PRICING.groq[m].input
    /\ call.op = "calculate_cost"
         => LET n == call.input_tokens
            IN  /\ calculate_cost(PRICING, n, 0, n, call.provider, call.model)
                     <= calculate_cost(PRICING, n, 0, 0, call.provider, call.model)
                /\ call.cached_tokens = n
                     => call.result <= calculate_cost(PRICING, n, call.output_tokens, 0,
                                                      call.provider, call.model)
    /\ (IsClientCall /\ call.result.tokens.cached >= 0)
         => LET t == call.result.tokens
            IN  /\ GroqCachingCost(t.input, 0, t.input) <= GroqCachingCost(t.input, 0, 0)
                /\ call.result.cost <= GroqCachingCost(t.input, t.output, 0)

C14_Witness ==
    /\ call.op = "calculate_cost"
    /\ call.model = "gemma-7b-it"
    /\ call.input_tokens = 3 /\ call.cached_tokens = 3 /\ call.output_tokens = 0
    /\ call.result = 21
    /\ PRICING.groq["gemma-7b-it"] = [input |-> 70, output |-> 70, cached_input |-> 7]

\* C15: calculate_cost returns a number for every provider string and every
\* model string, known or not; calculate_savings and calculate_cache_savings
\* return the percentage 0, and divide by nothing, when their divisor
\* (original_cost, first_request_cost * (1 + num_cached_requests)) is zero.
C15_CoreIsTotal ==
    /\ call.op = "calculate_cost" => call.result \in Int
    /\ (call.op = "calculate_savings" /\ call.original_cost = 0)
         => /\ call.result.percentage.den # 0
            /\ call.result.percentage.num = 0
    /\ (call.op = "calculate_cache_savings"
            /\ call.first_request_cost * (1 + call.num_cached_requests) = 0)
         => /\ call.result.savings_percentage.den # 0
            /\ call.result.savings_percentage.num = 0

C15_Witness ==
    /\ call.op = "calculate_cache_savings"
    /\ call.first_request_cost = 0
    /\ call.cached_request_cost = 2
    /\ call.num_cached_requests = 2
    /\ call.result.total_savings = -4
    /\ call.result.savings_percentage.num = 0

\* C16: after any sequence of calculate_cost, calculate_savings and
\* project_monthly_cost calls, unknown-model fallbacks included, PRICING is
\* what it was initially, and a call returns what the same call returns in
\* the initial state, whatever calls came before it.
C16_PricingIsNeverWritten ==
    /\ PRICING = PRICING_TABLE
    /\ call.op = "calculate_cost"
         => call.result = calculate_cost(PRICING_TABLE, call.input_tokens, call.output_tokens,
                                         call.cached_tokens, call.provider, call.model)
    /\ call.op = "calculate_savings"
         => call.result = calculate_savings(call.original_cost, call.optimized_cost)
    /\ call.op = "project_monthly_cost"
         => call.result = project_monthly_cost(PRICING_TABLE, call.daily_users,
                                               call.tokens_per_user, call.days_per_month,
                                               call.provider, call.model, call.use_caching,
                                               call.cache_hit_rate)

C16_Witness ==
    /\ call.op = "project_monthly_cost"
    /\ call.model = "nonexistent-model"
    /\ call.use_caching
    /\ call.result.monthly_cost > 0
    /\ "nonexistent-model" \notin DOMAIN PRICING.groq
    /\ PRICING = PRICING_TABLE

\* C17 as stated: project_monthly_cost with use_caching = false returns
\* monthly_cost = calculate_cost(input = totalTokens, output = 0, cached = 0),
\* totalTokens = daily_users * tokens_per_user * days_per_month, that is
\* totalTokens at the input rate only, and annual_cost = 12 * monthly_cost.
\* (Token counts in units of 1e-4 token.)
C17_MonthlyCostIsInputOnly ==
    (call.op = "project_monthly_cost" /\ ~call.use_caching)
    => LET total_tokens == call.daily_users * call.tokens_per_user * call.days_per_month
       IN  /\ call.result.monthly_cost
                = calculate_cost(PRICING, 10000 * total_tokens, 0, 0, call.provider, call.model)
           /\ call.result.annual_cost = 12 * call.result.monthly_cost

\* C17, amended: project_monthly_cost with use_caching = false returns
\* monthly_cost = calculate_cost(input = totalTokens, output = 0.1 *
\* totalTokens, cached = 0), that is totalTokens at the input rate plus a tenth
\* of them at the output rate, and annual_cost = 12 * monthly_cost.
C17_MonthlyCostIncludesEstimatedOutput ==
    (call.op = "project_monthly_cost" /\ ~call.use_caching)
    => LET total_tokens == call.daily_users * call.tokens_per_user * call.days_per_month
           rates == IF call.model \in Models
                    THEN PRICING_TABLE.groq[call.model]
                    ELSE PRICING_TABLE.groq["llama-3.1-70b-versatile"]
       IN  /\ call.result.total_tokens = 10000 * total_tokens
           /\ call.result.monthly_cost
                = CostAtRates(rates, 10000 * total_tokens, 1000 * total_tokens, 0)
           /\ call.result.monthly_cost
                = 10000 * total_tokens * rates.input + 1000 * total_tokens * rates.output
           /\ call.result.annual_cost = 12 * call.result.monthly_cost

C17_Witness ==
    /\ call.op = "project_monthly_cost"
    /\ ~call.use_caching
    /\ call.model = "llama-3.1-8b-instant"
    /\ call.daily_users = 2 /\ call.tokens_per_user = 3 /\ call.days_per_month = 2
    /\ call.result.monthly_cost = 120000 * 50 + 12000 * 50
    /\ call.result.annual_cost = 12 * 6600000

\* C18: when analyze_with_caching is called with enable_caching = false, the
\* result reports cached tokens = 0 and cache hit = false and is billed
\* entirely at the full input rate, for both is_first_request values and on
\* every path (real call, simulation without a client, simulation after an
\* exception of the provider).
C18_CachingOffReportsNoCache ==
    (call.op = "analyze_with_caching" /\ ~call.enable_caching)
    => /\ call.result.tokens.cached = 0
       /\ call.result.cache_info.cached_tokens = 0
       /\ call.result.cache_info.hit = FALSE
       /\ call.result.cost
            = call.result.tokens.input * 270 + call.result.tokens.output * 270

\* C19: in the results stored by a caching test run, each record's
\* cache_status agrees with what the client reported for that request: "HIT"
\* exactly when the client's cache_info.hit was true, "MISS" exactly when it
\* was false, and the cached token count is the one the client returned, for
\* every setting of the Enable Prompt Caching checkbox.
C19_CacheStatusIsClientReport ==
    (call.op = "run_caching_test" /\ call.valid)
    => \A i \in 1..Len(caching_results) :
          /\ caching_results[i].cache_status \in {"HIT", "MISS"}
          /\ (caching_results[i].cache_status = "HIT") = call.returned[i].cache_info.hit
          /\ caching_results[i].tokens.cached = call.returned[i].cache_info.cached_tokens

\* One step of a caching test run over n questions: what it issued and what
\* it left in the session state.
C20_RunStep ==
    (call.op = "none" /\ call'.op = "run_caching_test")
    => LET questions == call'.questions
           n == Len(questions)
           passes == /\ ~IsBlank(call'.document)
                     /\ \E i \in 1..n : ~IsBlank(questions[i])
       IN  IF passes
           THEN /\ n >= 1
                /\ Len(call'.requests) = n
                /\ Len(call'.returned) = n
                /\ \A i \in 1..n :
                      /\ call'.requests[i].question = questions[i]
                      /\ call'.requests[i].document = call'.document
                      /\ call'.requests[i].model = call'.model
                      /\ call'.requests[i].enable_caching = call'.enable_caching
                      /\ call'.requests[i].is_first_request = (i = 1)
                /\ Len(caching_results') = n
                /\ \A i \in 1..n :
                      /\ caching_results'[i].request_num = i
                      /\ caching_results'[i].question = questions[i]
                      /\ caching_results'[i].tokens = call'.returned[i].tokens
                      /\ caching_results'[i].cost = call'.returned[i].cost
                      /\ caching_results'[i].response = call'.returned[i].response
           ELSE /\ call'.requests = <<>>
                /\ caching_results' = caching_results

\* C20: a caching test run over n >= 1 questions that passes validation
\* issues exactly n client requests in question order, the first with
\* is_first_request = true and the n - 1 after it with is_first_request =
\* false; caching_results then holds exactly n records with request_num 1..n
\* in that order, whatever an earlier run had stored; a run that fails
\* validation (blank document, or all questions blank) issues no request and
\* leaves caching_results unchanged.
C20_RunIssuesRequestsInOrder == [][C20_RunStep]_vars

C20_Witness ==
    /\ call.op = "run_caching_test"
    /\ call.valid
    /\ Len(call.questions) = 2
    /\ IsBlank(call.questions[1]) /\ ~IsBlank(call.questions[2])
    /\ Len(call.requests) = 2
    /\ call.requests[1].is_first_request /\ ~call.requests[2].is_first_request
    /\ Len(caching_results) = 2
    /\ caching_results[2].request_num = 2

====
